---- MODULE Spec2Model ----
(***************************************************************************)
(* Model of quantiphyse-dce, src/dce/process.py: the DCE PK modelling      *)
(* process.  PkModellingProcess.run masks and normalises the 4D volume and *)
(* dispatches one worker; the worker function _run_pk drives the fitting   *)
(* engine chunk by chunk and reports progress on a queue; timeout() polls  *)
(* the queue; finished() rebuilds the parameter volumes and writes them to *)
(* the data store.                                                         *)
(*                                                                         *)
(* Floating-point values are modelled as exact rationals <<n, d>> in       *)
(* lowest terms with d > 0; <<0,0>> is NaN and <<1,0>>, <<-1,0>> are the   *)
(* infinities, which only a division can produce.  The spatial axes are    *)
(* kept flattened (row-major), as the code flattens them before use.       *)
(***************************************************************************)
EXTENDS Integers, Sequences, FiniteSets, TLC

VARIABLES
    ppc,        \* position of the process: "idle", "error", "running", "finished"
    runError,   \* the QpException PkModellingProcess.run raised, or "none"
    roi1vec,    \* self.roi1vec: the flattened boolean mask
    baseline,   \* self.baseline: per selected voxel
    shape,      \* self.shape, as <<number of spatial positions, time points>>
    thresh1val, \* self.thresh1val: the percentile
    img1sub,    \* the normalised voxel curves handed to the worker
    status,     \* self.status
    output,     \* self.output[0]: the worker's payload, or the error
    queue,      \* the progress queue, FIFO of <<num_row, progress>>
    tpc,        \* position inside timeout(): "idle", "loop", "get"
    progress,   \* timeout()'s local: last value dequeued in this call
    emitted,    \* what sig_progress emitted last: <<>> or <<value>>
    wpc,        \* position of the worker inside _run_pk
    size_step,  \* _run_pk local
    steps1,     \* _run_pk local
    ii,         \* _run_pk loop index
    cursor,     \* the engine's cursor: voxels consumed so far
    engine,     \* what the worker got from the engine: res1, fcurve1, params2
    sent,       \* every value the worker has put on the queue, in order
    result,     \* the value _run_pk returned
    Ktrans1,    \* finished() local, before percentile thresholding
    ve1,        \* finished() local
    kep1,       \* finished() local, before percentile thresholding
    ivm         \* the add_data calls made on the data store, in order

vars == <<ppc, runError, roi1vec, baseline, shape, thresh1val, img1sub, status,
          output, queue, tpc, progress, emitted, wpc, size_step, steps1, ii,
          cursor, engine, sent, result, Ktrans1, ve1, kep1, ivm>>

procVars   == <<roi1vec, baseline, shape, thresh1val, img1sub>>
workerVars == <<wpc, size_step, steps1, ii, cursor, engine, sent, result>>
pollVars   == <<tpc, progress, emitted>>
finVars    == <<Ktrans1, ve1, kep1, ivm>>

-----------------------------------------------------------------------------
(* Bounds of the model *)

\* largest number of spatial positions of a volume in the pipeline runs
MaxVox == 9
\* largest number of spatial positions in the reconstruction runs
MaxReconVox == 2
\* number of time points of a volume
NumT == 2

-----------------------------------------------------------------------------
(* Exact arithmetic standing for numpy's float64 *)

Abs(n) == IF n < 0 THEN -n ELSE n

Sign(n) == IF n < 0 THEN -1 ELSE IF n > 0 THEN 1 ELSE 0

RECURSIVE GCD(_, _)
GCD(a, b) == IF b = 0 THEN a ELSE GCD(b, a % b)

Norm(n, d) ==
    IF d = 0 THEN <<Sign(n), 0>>
    ELSE LET g == GCD(Abs(n), Abs(d))
             s == IF d < 0 THEN -1 ELSE 1
         IN  <<(s * n) \div g, (s * d) \div g>>

Zero == <<0, 1>>
One  == <<1, 1>>
Num(n) == <<n, 1>>

IsNan(x) == x = <<0, 0>>
IsInf(x) == x[2] = 0 /\ x[1] # 0

RAdd(a, b) == Norm(a[1] * b[2] + b[1] * a[2], a[2] * b[2])
RSub(a, b) == Norm(a[1] * b[2] - b[1] * a[2], a[2] * b[2])
RMul(a, b) == Norm(a[1] * b[1], a[2] * b[2])
RDiv(a, b) == Norm(a[1] * b[2], a[2] * b[1])
RLt(a, b)  == a[2] # 0 /\ b[2] # 0 /\ a[1] * b[2] < b[1] * a[2]
RLe(a, b)  == a[2] # 0 /\ b[2] # 0 /\ a[1] * b[2] <= b[1] * a[2]

\* a numpy boolean used as a factor
B(c) == IF c THEN One ELSE Zero

Range(s) == {s[i] : i \in DOMAIN s}

Min(a, b) == IF a < b THEN a ELSE b
Max(a, b) == IF a > b THEN a ELSE b

RECURSIVE RSum(_, _)
RSum(s, k) == IF k = 0 THEN Zero ELSE RAdd(RSum(s, k - 1), s[k])

\* numpy.around of the quotient a / b of two non-negative numbers, b > 0:
\* round half to even
Around(a, b) ==
    LET q == a \div b
        r == a % b
    IN  IF 2 * r < b THEN q
        ELSE IF 2 * r > b THEN q + 1
        ELSE IF q % 2 = 0 THEN q ELSE q + 1

-----------------------------------------------------------------------------
(* Constants of the program *)

Eps        == <<1, 1000>>
Two        == <<2, 1>>
Hundred    == <<100, 1>>
NumChunks  == 5
NoData     == "Pk Modelling - no unmasked data found!"
EngineErr  == "engine error"
None       == <<>>

-----------------------------------------------------------------------------
(* PkModellingProcess.run: masking and normalisation *)

\* indices of the True entries of a flattened mask, ascending
SelectIdx(mask) == SelectSeq([i \in 1..Len(mask) |-> i], LAMBDA i : mask[i])

\* vec[mask]
Gather(vec, mask) ==
    LET idx == SelectIdx(mask) IN [j \in 1..Len(idx) |-> vec[idx[j]]]

\* int(1 + InjT / DelT)
BaselineTpts(InjT, DelT) == 1 + (InjT \div DelT)

\* np.mean(img1[:, :, :, :baseline_tpts], axis=-1), flattened
BaselineOf(img, tpts) ==
    [p \in 1..Len(img) |->
        LET k == Min(tpts, Len(img[p])) IN RDiv(RSum(img[p], k), Num(k))]

\* img1sub / (baseline + 0.001) - 1
Normalise(sub, base) ==
    [j \in 1..Len(sub) |->
        [t \in 1..Len(sub[j]) |-> RSub(RDiv(sub[j][t], RAdd(base[j], Eps)), One)]]

\* the volumes of the model: every voxel carries the ramp 1, 2, ..
RampImage(P) == [p \in 1..P |-> [t \in 1..NumT |-> Num(t)]]

AllTrue(P)  == [p \in 1..P |-> TRUE]
AllFalse(P) == [p \in 1..P |-> FALSE]
ButFirst(P) == [p \in 1..P |-> p > 1]
\* the ROIs of a pipeline run: none given (every voxel), or one of three masks
RunMasks(P) == {AllTrue(P), AllFalse(P), ButFirst(P)}
Masks(P) == [1..P -> BOOLEAN]

\* InjT, DelT pairs
Timings == {<<0, 1>>, <<1, 1>>}
\* the 've-thresh' option
ThreshVals == {0, 50, 100}

ConfigErrors == {"Specified ROI not found", "No data loaded",
                 "Data must be 4D for DCE PK modelling"}

\* run() raises one of its QpExceptions, before it has set any field
RunFails ==
    /\ ppc = "idle"
    /\ \E e \in ConfigErrors : runError' = e
    /\ ppc' = "error"
    /\ UNCHANGED <<procVars, status, output, queue, pollVars, workerVars, finVars>>

\* the assignments of run() up to args, for given inputs
Prepared(img, mask, tpts, thresh) ==
    LET base == Gather(BaselineOf(img, tpts), mask)
    IN  /\ roi1vec' = mask
        /\ baseline' = base
        /\ shape' = <<Len(img), NumT>>
        /\ thresh1val' = thresh
        /\ img1sub' = Normalise(Gather(img, mask), base)

\* run() to its end: self.start(1, args) dispatches worker 0
Run ==
    /\ ppc = "idle"
    /\ \E P \in 1..MaxVox, tm \in Timings, th \in ThreshVals :
         \E mask \in RunMasks(P) :
            Prepared(RampImage(P), mask, BaselineTpts(tm[1], tm[2]), th)
    /\ ppc' = "running"
    /\ status' = "RUNNING"
    /\ wpc' = "start"
    /\ UNCHANGED <<runError, output, queue, pollVars, size_step, steps1, ii,
                   cursor, engine, sent, result, finVars>>

-----------------------------------------------------------------------------
(* The fitting engine (PyPk), by its contract *)

\* run(chunk): the cursor advances over chunk voxels of the n supplied
EngineRun(c, chunk, n) == Min(n, c + chunk)

KtransVals == {<<-1, 1>>, One, Two, <<3, 1>>}
veVals     == {<<-1, 2>>, <<499, 1000>>, Two, <<5, 2>>}
\* rows Ktrans, ve, offset, vp
ParamRows  == {<<k, v, <<1, 10>>, <<1, 20>>>> : k \in KtransVals, v \in veVals}
\* fitted (normalised) curves
FitCurves  == {[t \in 1..NumT |-> One], [t \in 1..NumT |-> <<-1, 2>>]}

\* a stub engine: the same row, the same curve, for every voxel
StubRows == {<<One, <<499, 1000>>, <<1, 10>>, <<1, 20>>>>,
             <<<<-1, 1>>, <<5, 2>>, <<1, 10>>, <<1, 20>>>>}
StubParams(n) == {[j \in 1..n |-> r] : r \in StubRows}
StubCurves(n) == {[j \in 1..n |-> [t \in 1..NumT |-> One]]}
Residual(n)   == [j \in 1..n |-> <<1, 4>>]

-----------------------------------------------------------------------------
(* _run_pk, the worker *)

worker_id == 0
num_row   == One

\* max(1, np.around(img1sub.shape[0]/5))
SizeStep(n) == Max(1, Around(n, NumChunks))
\* np.around(size_tot/size_step)
Steps(n) == Around(n, SizeStep(n))
\* progress as a share of five chunks, whatever the number of steps
ProgressOfFive(i, s) == RMul(RDiv(Num(i), Num(NumChunks)), Hundred)

\* float(ii) / float(steps1) * 100
Progress(i, s) == RMul(RDiv(Num(i), Num(s)), Hundred)

Put(v) ==
    /\ queue' = Append(queue, <<num_row, v>>)
    /\ sent' = Append(sent, v)

\* a worker that lets the exception through
CaughtReraised(err) ==
    /\ wpc' = "crashed"
    /\ UNCHANGED result

\* the except clause: whatever was raised is returned, tagged
Caught(err) ==
    /\ result' = <<worker_id, FALSE, err>>
    /\ wpc' = "returned"

\* a worker that does not test for an empty selection
WStartUnchecked ==
    /\ wpc = "start"
    /\ wpc' = "construct"
    /\ UNCHANGED <<ppc, runError, procVars, status, output, queue, pollVars,
                   size_step, steps1, ii, cursor, engine, sent, result, finVars>>

\* lines 22-45: conversions, then the test for an empty selection
WStart ==
    /\ wpc = "start"
    /\ IF Len(img1sub) = 0
         THEN Caught(NoData)
         ELSE wpc' = "construct" /\ UNCHANGED result
    /\ UNCHANGED <<ppc, runError, procVars, status, output, queue, pollVars,
                   size_step, steps1, ii, cursor, engine, sent, finVars>>

\* lines 47-53: PyPk(..), set_bounds, set_parameters, rinit
WSetup ==
    /\ wpc = "construct"
    /\ cursor' = 0
    /\ wpc' = "plan"
    /\ UNCHANGED <<ppc, runError, procVars, status, output, queue, pollVars,
                   size_step, steps1, ii, engine, sent, result, finVars>>

\* lines 58-65: the chunking, and the first progress value
WPlan ==
    /\ wpc = "plan"
    /\ size_step' = SizeStep(Len(img1sub))
    /\ steps1' = Steps(Len(img1sub))
    /\ Put(One)
    /\ ii' = 0
    /\ wpc' = "loop"
    /\ UNCHANGED <<ppc, runError, procVars, status, output, pollVars,
                   cursor, engine, result, finVars>>

\* a loop head that reports progress before the first chunk too
WLoopEager ==
    /\ wpc = "loop"
    /\ IF ii < steps1
         THEN Put(Progress(ii, steps1)) /\ wpc' = "run"
         ELSE UNCHANGED <<queue, sent>> /\ wpc' = "get_residual"
    /\ UNCHANGED <<ppc, runError, procVars, status, output, pollVars,
                   size_step, steps1, ii, cursor, engine, result, finVars>>

\* lines 66-71: the head of the loop, with the progress of chunk ii
WLoop ==
    /\ wpc = "loop"
    /\ IF ii < steps1
         THEN /\ IF ii > 0 THEN Put(Progress(ii, steps1))
                           ELSE UNCHANGED <<queue, sent>>
              /\ wpc' = "run"
         ELSE /\ UNCHANGED <<queue, sent>>
              /\ wpc' = "get_residual"
    /\ UNCHANGED <<ppc, runError, procVars, status, output, pollVars,
                   size_step, steps1, ii, cursor, engine, result, finVars>>

\* line 72: Pkclass.run(size_step)
WRun ==
    /\ wpc = "run"
    /\ cursor' = EngineRun(cursor, size_step, Len(img1sub))
    /\ ii' = ii + 1
    /\ wpc' = "loop"
    /\ UNCHANGED <<ppc, runError, procVars, status, output, queue, pollVars,
                   size_step, steps1, engine, sent, result, finVars>>

\* line 75
WGetResidual ==
    /\ wpc = "get_residual"
    /\ engine' = <<Residual(Len(img1sub))>>
    /\ wpc' = "get_fitted_curve"
    /\ UNCHANGED <<ppc, runError, procVars, status, output, queue, pollVars,
                   size_step, steps1, ii, cursor, sent, result, finVars>>

\* line 76
WGetFittedCurve ==
    /\ wpc = "get_fitted_curve"
    /\ \E fc \in StubCurves(Len(img1sub)) : engine' = Append(engine, fc)
    /\ wpc' = "get_parameters"
    /\ UNCHANGED <<ppc, runError, procVars, status, output, queue, pollVars,
                   size_step, steps1, ii, cursor, sent, result, finVars>>

\* line 77
WGetParameters ==
    /\ wpc = "get_parameters"
    /\ \E pm \in StubParams(Len(img1sub)) : engine' = Append(engine, pm)
    /\ wpc' = "final"
    /\ UNCHANGED <<ppc, runError, procVars, status, output, queue, pollVars,
                   size_step, steps1, ii, cursor, sent, result, finVars>>

\* lines 80-81: the final progress value
WFinal ==
    /\ wpc = "final"
    /\ Put(Hundred)
    /\ wpc' = "return"
    /\ UNCHANGED <<ppc, runError, procVars, status, output, pollVars,
                   size_step, steps1, ii, cursor, engine, result, finVars>>

\* line 82
WReturn ==
    /\ wpc = "return"
    /\ result' = <<worker_id, TRUE, engine>>
    /\ wpc' = "returned"
    /\ UNCHANGED <<ppc, runError, procVars, status, output, queue, pollVars,
                   size_step, steps1, ii, cursor, engine, sent, finVars>>

EngineCalls == {"construct", "run", "get_residual", "get_fitted_curve",
                "get_parameters"}

\* lines 83-84: an engine call raises
WExcept ==
    /\ wpc \in EngineCalls
    /\ Caught(EngineErr)
    /\ UNCHANGED <<ppc, runError, procVars, status, output, queue, pollVars,
                   size_step, steps1, ii, cursor, engine, sent, finVars>>

-----------------------------------------------------------------------------
(* BackgroundProcess: the worker's return value reaches the process *)

\* the completion callback: the status and the output are set from the
\* tagged value the worker returned, then finished() is called
Completed ==
    /\ ppc = "running"
    /\ wpc = "returned"
    /\ status' = IF result[2] THEN "SUCCEEDED" ELSE "FAILED"
    /\ output' = result[3]
    /\ ppc' = "completing"
    /\ UNCHANGED <<runError, procVars, queue, pollVars, workerVars, finVars>>

-----------------------------------------------------------------------------
(* PkModellingProcess.timeout, called by the timer *)

\* line 164: if self.queue.empty(): return
TimeoutEnter ==
    /\ ppc \in {"running", "completing", "finished"}
    /\ tpc = "idle"
    /\ tpc' = IF queue = <<>> THEN "idle" ELSE "loop"
    /\ UNCHANGED <<ppc, runError, procVars, status, output, queue, progress,
                   emitted, workerVars, finVars>>

\* line 165, the queue is not empty: enter the body
TimeoutTest ==
    /\ tpc = "loop"
    /\ queue # <<>>
    /\ tpc' = "get"
    /\ UNCHANGED <<ppc, runError, procVars, status, output, queue, progress,
                   emitted, workerVars, finVars>>

\* a get that keeps the first value of the poll instead of the last
TimeoutGetFirst ==
    /\ tpc = "get"
    /\ queue # <<>>
    /\ progress' = IF progress = None THEN Head(queue)[2] ELSE progress
    /\ queue' = Tail(queue)
    /\ tpc' = "loop"
    /\ UNCHANGED <<ppc, runError, procVars, status, output, emitted,
                   workerVars, finVars>>

\* line 166: _, progress = self.queue.get(); blocks while the queue is empty
TimeoutGet ==
    /\ tpc = "get"
    /\ queue # <<>>
    /\ progress' = Head(queue)[2]
    /\ queue' = Tail(queue)
    /\ tpc' = "loop"
    /\ UNCHANGED <<ppc, runError, procVars, status, output, emitted,
                   workerVars, finVars>>

\* float(progress)/100
Signal(v) == RDiv(v, Hundred)

\* lines 165, 167: the queue is empty, leave the loop and emit
TimeoutEmit ==
    /\ tpc = "loop"
    /\ queue = <<>>
    /\ emitted' = <<Signal(progress)>>
    /\ progress' = None
    /\ tpc' = "idle"
    /\ UNCHANGED <<ppc, runError, procVars, status, output, queue,
                   workerVars, finVars>>

-----------------------------------------------------------------------------
(* PkModellingProcess.finished: the reconstruction *)

\* number of True entries among the first p of a mask
RECURSIVE Rank(_, _)
Rank(mask, p) ==
    IF p = 0 THEN 0 ELSE Rank(mask, p - 1) + (IF mask[p] THEN 1 ELSE 0)

\* a = np.zeros(..); a[mask] = vals
Scatter(vals, mask, zero) ==
    [p \in 1..Len(mask) |-> IF mask[p] THEN vals[Rank(mask, p)] ELSE zero]

\* v * (v < 2.0) + 2 * (v > 2.0)
ClampUpper(v) == RAdd(RMul(v, B(RLt(v, Two))), RMul(Two, B(RLt(Two, v))))

\* negative values kept
KeepNegative(v) == v

\* v *= (v > 0)
ZeroNegative(v) == RMul(v, B(RLt(Zero, v)))

\* kep1p[np.logical_or(np.isnan(kep1p), np.isinf(kep1p))] = 0
Sanitise(v) == IF IsNan(v) \/ IsInf(v) THEN Zero ELSE v

\* the upper clamp with > in place of >=
ClampKepStrict(v) == RAdd(RMul(v, B(RLt(v, Two))), RMul(Two, B(RLt(Two, v))))

\* kep1p * (kep1p < 2.0) + 2 * (kep1p >= 2.0)
ClampKep(v) == RAdd(RMul(v, B(RLt(v, Two))), RMul(Two, B(RLe(Two, v))))

\* lines 189-192, for one position of the volume
Kep(k, v) == ClampKep(ZeroNegative(Sanitise(RDiv(k, RAdd(v, Eps)))))

\* (var1[1] + 1) * baseline, for one voxel
SignalCurve(fc, b) == [t \in 1..Len(fc) |-> RMul(RAdd(fc[t], One), b)]

\* the k-th smallest entry of a non-empty sequence, k from 1
Kth(vol, k) ==
    CHOOSE x \in Range(vol) :
        /\ Cardinality({i \in DOMAIN vol : RLt(vol[i], x)}) < k
        /\ k <= Cardinality({i \in DOMAIN vol : RLe(vol[i], x)})

\* np.percentile(vol, q): linear interpolation between the order statistics
Percentile(vol, q) ==
    LET n   == Len(vol)
        pos == q * (n - 1)
        lo  == pos \div 100
        a   == Kth(vol, lo + 1)
        b   == Kth(vol, Min(lo + 2, n))
    IN  RAdd(a, RMul(Norm(pos % 100, 100), RSub(b, a)))

\* vol[vol > p] = p, with p the percentile
Threshold(vol, q) ==
    LET p == Percentile(vol, q)
    IN  [i \in 1..Len(vol) |-> IF RLt(p, vol[i]) THEN p ELSE vol[i]]

ZeroCurve == [t \in 1..NumT |-> Zero]

\* lines 182-228, on a successful run
Reconstruct ==
    LET roi1v  == roi1vec
        params == output[3]
        n      == Len(params)
        K1 == Scatter([j \in 1..n |-> ClampUpper(params[j][1])], roi1v, Zero)
        V0 == Scatter([j \in 1..n |-> ClampUpper(params[j][2])], roi1v, Zero)
        V1 == [p \in 1..Len(roi1v) |-> ZeroNegative(V0[p])]
        P1 == [p \in 1..Len(roi1v) |-> Kep(K1[p], V1[p])]
        offset1 == Scatter([j \in 1..n |-> params[j][3]], roi1v, Zero)
        vp1     == Scatter([j \in 1..n |-> params[j][4]], roi1v, Zero)
        sig     == [j \in 1..n |-> SignalCurve(output[2][j], baseline[j])]
        estimated_curve1 == Scatter(sig, roi1v, ZeroCurve)
    IN  /\ Ktrans1' = K1
        /\ ve1' = V1
        /\ kep1' = P1
        /\ ivm' = ivm \o << <<"ktrans", Threshold(K1, thresh1val)>>,
                           <<"ve", V1>>,
                           <<"kep", Threshold(P1, thresh1val)>>,
                           <<"offset", offset1>>,
                           <<"vp", vp1>>,
                           <<"model_curves", estimated_curve1>> >>

\* line 173: nothing is done unless the run succeeded
Finished ==
    /\ ppc = "completing"
    /\ IF status = "SUCCEEDED" THEN Reconstruct ELSE UNCHANGED finVars
    /\ ppc' = "finished"
    /\ UNCHANGED <<runError, procVars, status, output, queue, pollVars,
                   workerVars>>

-----------------------------------------------------------------------------
(* The pipeline: one process, its worker and the polling timer *)

Init ==
    /\ ppc = "idle"
    /\ runError = "none"
    /\ roi1vec = None
    /\ baseline = None
    /\ shape = <<>>
    /\ thresh1val = 0
    /\ img1sub = None
    /\ status = "NOTSTARTED"
    /\ output = None
    /\ queue = <<>>
    /\ tpc = "idle"
    /\ progress = None
    /\ emitted = <<>>
    /\ wpc = "none"
    /\ size_step = 0
    /\ steps1 = 0
    /\ ii = 0
    /\ cursor = 0
    /\ engine = None
    /\ sent = <<>>
    /\ result = None
    /\ Ktrans1 = None
    /\ ve1 = None
    /\ kep1 = None
    /\ ivm = <<>>

Next ==
    \/ RunFails
    \/ Run
    \/ WStart
    \/ WSetup
    \/ WPlan
    \/ WLoop
    \/ WRun
    \/ WGetResidual
    \/ WGetFittedCurve
    \/ WGetParameters
    \/ WFinal
    \/ WReturn
    \/ WExcept
    \/ Completed
    \/ TimeoutEnter
    \/ TimeoutTest
    \/ TimeoutGet
    \/ TimeoutEmit
    \/ Finished

Spec == Init /\ [][Next]_vars

-----------------------------------------------------------------------------
(* The reconstruction alone: finished() after a successful run, for any    *)
(* mask, any parameter matrix over ParamRows and any percentile            *)

\* every value the worker of n voxels puts on the queue, in order
AllSent(n) ==
    <<One>> \o [i \in 1..(Steps(n) - 1) |-> Progress(i, Steps(n))] \o <<Hundred>>

InitRecon ==
    \E P \in 1..MaxReconVox, tm \in Timings :
      \E mask \in Masks(P), img \in {RampImage(P)} :
        LET n    == Len(SelectIdx(mask))
            base == Gather(BaselineOf(img, BaselineTpts(tm[1], tm[2])), mask)
        IN
        /\ n > 0
        /\ ppc = "completing"
        /\ runError = "none"
        /\ roi1vec = mask
        /\ baseline = base
        /\ shape = <<P, NumT>>
        /\ thresh1val \in ThreshVals
        /\ img1sub = Normalise(Gather(img, mask), base)
        /\ status = "SUCCEEDED"
        /\ \E pm \in [1..n -> ParamRows], fc \in FitCurves :
              engine = <<Residual(n), [j \in 1..n |-> fc], pm>>
        /\ output = engine
        /\ result = <<worker_id, TRUE, engine>>
        /\ queue = <<>>
        /\ tpc = "idle"
        /\ progress = None
        /\ emitted = <<Signal(Hundred)>>
        /\ wpc = "returned"
        /\ size_step = SizeStep(n)
        /\ steps1 = Steps(n)
        /\ ii = Steps(n)
        /\ cursor = Min(n, Steps(n) * SizeStep(n))
        /\ sent = AllSent(n)
        /\ Ktrans1 = None
        /\ ve1 = None
        /\ kep1 = None
        /\ ivm = <<>>

NextRecon == Finished

SpecRecon == InitRecon /\ [][NextRecon]_vars

-----------------------------------------------------------------------------
(* Properties *)

Nvox == Len(img1sub)
Raw(j, col) == output[3][j][col]
Getters == {"get_residual", "get_fitted_curve", "get_parameters"}
VolumeNames == <<"ktrans", "ve", "kep", "offset", "vp", "model_curves">>

\* C1: when the worker calls get_residual, get_fitted_curve and
\* get_parameters, its run calls have advanced the engine over every one of
\* the N voxels.
C1_AllVoxelsConsumed == wpc \in Getters => cursor >= Nvox

\* C2: before the percentile thresholding, the Ktrans of a masked voxel is its
\* raw value v if v < 2.0 and 2.0 otherwise, v = 2.0 included.
C2_KtransUpperClamp ==
    ppc = "finished" =>
        \A j \in 1..Len(output[3]) :
            Ktrans1[SelectIdx(roi1vec)[j]] =
                IF RLt(Raw(j, 1), Two) THEN Raw(j, 1) ELSE Two

\* C3: every volume written to the data store is 0 wherever the mask is
\* False, whatever the parameter matrix and the percentile.
C3_ZeroOutsideMask ==
    \A c \in 1..Len(ivm) : \A p \in 1..Len(roi1vec) :
        ~roi1vec[p] =>
            ivm[c][2][p] = IF ivm[c][1] = "model_curves" THEN ZeroCurve ELSE Zero

C5_EngineFailureIsolated ==
    /\ [][(wpc \in EngineCalls /\ wpc' \notin
              {wpc, "plan", "loop", "get_fitted_curve", "get_parameters", "final"})
            => (wpc' = "returned" /\ result' = <<worker_id, FALSE, EngineErr>>)]_vars
    /\ []((wpc = "returned" /\ ~result[2]) => ivm = <<>>)
    /\ [](ivm # <<>> =>
            /\ status = "SUCCEEDED"
            /\ [c \in 1..Len(ivm) |-> ivm[c][1]] = VolumeNames)

\* the engine raised in the second of five chunks, and finished() has run
C5_Witness ==
    /\ ppc = "finished"
    /\ status = "FAILED"
    /\ output = EngineErr
    /\ steps1 = NumChunks
    /\ ii = 1
    /\ ivm = <<>>

\* C6: a poll that finds the queue empty emits nothing; a poll that finds it
\* non-empty emits once, when it returns, the signal of the last value put on
\* the queue, dropping the values before it; and get is never called on an
\* empty queue.
C6_LatestValueWins ==
    /\ [](tpc = "get" => queue # <<>>)
    /\ [][tpc = "idle" => emitted' = emitted]_vars
    /\ [][emitted' # emitted => (tpc # "idle" /\ tpc' = "idle")]_vars
    /\ [][(tpc # "idle" /\ tpc' = "idle") =>
            /\ queue = <<>>
            /\ sent # <<>>
            /\ emitted' = <<RDiv(sent[Len(sent)], Hundred)>>]_vars

\* a first poll has emitted the initial value; the next one has dequeued at
\* least two values and is about to emit the last of them only
C6_Witness ==
    /\ tpc = "loop"
    /\ queue = <<>>
    /\ emitted = <<<<1, 100>>>>
    /\ Len(sent) >= 3
    /\ progress = sent[Len(sent)]

\* C8: the worker puts i/S*100 (0 < i < S) after the run of chunk i-1 has
\* returned and before the run of chunk i starts, nothing of the kind before
\* chunk 0, and 100 only after all S runs and the three getters.
C8_ProgressOrder ==
    [][sent' # sent =>
        LET v == sent'[Len(sent')] IN
        \/ sent = <<>> /\ v = One /\ wpc = "plan" /\ cursor = 0
        \/ \E i \in 1..(steps1 - 1) :
              /\ v = Norm(100 * i, steps1)
              /\ ii = i
              /\ cursor = Min(Nvox, i * size_step)
              /\ wpc = "loop" /\ wpc' = "run"
        \/ /\ v = Hundred
           /\ ii = steps1
           /\ cursor = Min(Nvox, steps1 * size_step)
           /\ Len(engine) = 3
           /\ wpc = "final"]_vars

\* 40 has been put after two of five chunks, the third is about to run
C8_Witness ==
    /\ wpc = "run"
    /\ steps1 = NumChunks
    /\ ii = 2
    /\ sent = <<One, <<20, 1>>, <<40, 1>>>>

\* C7: inside the mask, kep is Ktrans/(ve+0.001) of the clamped Ktrans and ve,
\* with a NaN or infinite quotient taken as 0, floored at 0 and clamped above
\* at 2.0; so it lies in [0, 2.0] before the percentile thresholding.
C7_KepFormula ==
    ppc = "finished" =>
        \A p \in 1..Len(roi1vec) :
            roi1vec[p] =>
                LET q == RDiv(Ktrans1[p], RAdd(ve1[p], Eps))
                    e == IF q[2] = 0 THEN Zero
                         ELSE IF RLt(q, Zero) THEN Zero
                         ELSE IF RLt(Two, q) THEN Two ELSE q
                IN  /\ kep1[p] = e
                    /\ RLe(Zero, kep1[p])
                    /\ RLe(kep1[p], Two)

\* one voxel whose quotient is exactly 2.0, another whose quotient is negative
C7_Witness ==
    /\ ppc = "finished"
    /\ \E p \in 1..Len(roi1vec) :
          roi1vec[p] /\ RDiv(Ktrans1[p], RAdd(ve1[p], Eps)) = Two /\ kep1[p] = Two
    /\ \E p \in 1..Len(roi1vec) :
          roi1vec[p] /\ RLt(Ktrans1[p], Zero) /\ kep1[p] = Zero

\* C9: every value of the ve volume written to the data store is >= 0 and
\* <= 2.0, for raw values that are negative, above 2.0 or equal to 2.0.
C9_VeRange ==
    \A c \in 1..Len(ivm) :
        ivm[c][1] = "ve" =>
            \A p \in 1..Len(ivm[c][2]) :
                RLe(Zero, ivm[c][2][p]) /\ RLe(ivm[c][2][p], Two)

\* the ve volume has been written from a negative raw value and one above 2.0
C9_Witness ==
    /\ ppc = "finished"
    /\ Len(ivm) = 6
    /\ \E j \in 1..Len(output[3]) : RLt(Raw(j, 2), Zero)
    /\ \E j \in 1..Len(output[3]) : RLt(Two, Raw(j, 2))

\* C10: the values the worker puts (1, then i/S*100 for i = 1..S-1, then 100)
\* are strictly increasing in put order, the
\* emitted signals never decrease, and once the worker has succeeded and the
\* queue has been drained the last signal is that of 100.
C10_ProgressMonotone ==
    /\ [](\A i, j \in 1..Len(sent) : i < j => RLt(sent[i], sent[j]))
    /\ []((wpc = "returned" /\ result[2]) =>
            sent = <<One>> \o [i \in 1..(steps1 - 1) |-> Norm(100 * i, steps1)]
                          \o <<Hundred>>)
    /\ [][(emitted # <<>> /\ emitted' # <<>>) => RLe(emitted[1], emitted'[1])]_vars
    /\ []((wpc = "returned" /\ result[2] /\ queue = <<>> /\ tpc = "idle")
            => emitted = <<One>>)

\* seven chunks; the queue was drained after the worker succeeded
C10_Witness ==
    /\ wpc = "returned"
    /\ result[2]
    /\ steps1 = 7
    /\ queue = <<>>
    /\ tpc = "idle"
    /\ emitted = <<One>>

====
